---- MODULE Spec2Model ----
(***************************************************************************)
(* A model of the priq crate's PriorityQueue (src/src/priq.rs) and of its  *)
(* backing store RawPQ (src/src/rawpq.rs): a binary min-heap of            *)
(* (score, item) pairs kept in a raw array, whose scores are only          *)
(* partially ordered.                                                      *)
(*                                                                         *)
(* A queue is a record [data, cap]: data is the live slice self[0..len]    *)
(* (so self.len is Len(data)) and cap is self.data.cap.  Rust indices are  *)
(* 0-based; At and swap translate them to TLA+ sequences.                  *)
(***************************************************************************)
EXTENDS Integers, Sequences, FiniteSets, Bags, TLC

VARIABLES
    zst,      \* TRUE iff mem::size_of::<(S, T)>() == 0 for the entry type
    pq,       \* the queue under test (self)
    rhs,      \* a second queue: the argument of merge and of +
    op,       \* the last operation performed
    ret,      \* what the last pop / peek returned: None or Some(entry)
    input,    \* the collection handed to the last From / FromIterator call,
              \* or the entries of the queue handed to the last merge / +,
              \* or the entries of pq when the last operation on it began
    nput,     \* number of entries written so far into either queue, by put
              \* calls and by clone's copy
    npop,     \* number of pop calls on pq that returned Some
    nanPut,   \* TRUE once a NaN-like score has been handed to a queue
    iterator, \* the Drain / IntoIter of the running iteration: its kind
              \* ("none" once dropped), the entries between its start and
              \* end pointers, the entries it has yielded and its range
    dropped,  \* the entries whose destructor the last operation ran, in order
    sorted,   \* the Vec returned by the last into_sorted_vec
    arg,      \* the usize arguments of the last drain / truncate call
    made,     \* the n of the with_capacity(n) that made pq (0 for new())
    owed,     \* number of entries handed to pq or rhs that no queue and no
              \* iterator has returned, destroyed or (drain's self.len = 0)
              \* forgotten so far
    held      \* number of allocations pq, or an IntoIter made from it, holds:
              \* alloc::alloc calls less alloc::dealloc calls so far

vars == <<zst, pq, rhs, op, ret, input, nput, npop, nanPut, iterator,
         dropped, sorted, arg, made, owed, held>>

----------------------------------------------------------------------------
(* Bounds of the model *)

\* Totally ordered scores are 1..MaxScore.
MaxScore == 2
\* Total number of put calls in one behaviour.
MaxPuts == 4
\* usize::BITS of the modelled machine word.
WordBits == 6
\* mem::size_of::<(S, T)>() of a non-zero-sized entry type, in bytes.
ElemBytes == 1

(* Program constants *)
INITIAL_CAPACITY == 10
SHRINK_THRESHOLD == 1000
MIN_CAPACITY == 10

RECURSIVE Pow2(_)
Pow2(n) == IF n = 0 THEN 1 ELSE 2 * Pow2(n - 1)

MAX_ZST_CAPACITY == Pow2(WordBits - 1)
ISIZE_MAX == Pow2(WordBits - 1) - 1

----------------------------------------------------------------------------
(* Scores, items, entries *)

\* A NaN-like score: partial_cmp with it is None, also against itself.
NaN == 0
Scores == 1..MaxScore
AllScores == Scores \cup {NaN}
Items == {"a", "b"}
\* The one value of a zero-sized entry type, ((), ()).
UnitEntry == <<1, "a">>
Entries(z) == IF z THEN {UnitEntry} ELSE AllScores \X Items
\* Capacities handed to with_capacity at construction (0 is also new()).
InitCaps == {0, 2}

None == <<>>
Some(e) == <<e>>

\* std::cmp::Reverse(u) for a totally ordered u is written as the negative
\* number -u; r.0 takes the wrapper off again.
Reverse(u) == 0 - u
IsReverse(s) == s < 0
Unwrap(r) == 0 - r
ReverseEntries == {<<Reverse(u), x>> : u \in Scores, x \in Items}
\* The score type S of a queue is one type: Reverse<U> or not
HoldsReverse(d) == \E i \in DOMAIN d : IsReverse(d[i][1])
HoldsPlain(d) == \E i \in DOMAIN d : ~IsReverse(d[i][1])

\* partial_cmp of the wrapped type itself
inner_partial_cmp(a, b) ==
    IF a = NaN \/ b = NaN THEN "None"
    ELSE IF a < b THEN "Less"
    ELSE IF a = b THEN "Equal"
    ELSE "Greater"

\* partial_cmp under which Reverse compares like the type it wraps
partial_cmp_unreversed(a, b) ==
    IF IsReverse(a) /\ IsReverse(b)
    THEN inner_partial_cmp(Unwrap(a), Unwrap(b))
    ELSE inner_partial_cmp(a, b)

\* S::partial_cmp; for S = Reverse<U> it is other.0.partial_cmp(&self.0)
partial_cmp(a, b) ==
    IF IsReverse(a) /\ IsReverse(b)
    THEN inner_partial_cmp(Unwrap(b), Unwrap(a))
    ELSE inner_partial_cmp(a, b)

\* The PartialOrd operators > and <, derived from partial_cmp.
gt(a, b) == partial_cmp(a, b) = "Greater"
lt(a, b) == partial_cmp(a, b) = "Less"

----------------------------------------------------------------------------
(* The backing store *)

\* RawPQ::new
RawNew(z) == IF z THEN MAX_ZST_CAPACITY ELSE 0

\* RawPQ::with_capacity
RawWithCapacity(z, n) == IF z THEN MAX_ZST_CAPACITY ELSE n

\* RawPQ::grow: the new capacity, in machine-word arithmetic.
grow(c) == IF c = 0 THEN INITIAL_CAPACITY ELSE (3 * c) % Pow2(WordBits)

\* 3 * self.cap does not fit the machine word: a build with overflow checks
\* panics there, a build without them goes on with the wrapped product.
mul_overflows(c) == 3 * c >= Pow2(WordBits)

\* RawPQ::grow panics: the entry type is zero-sized (assert_ne!), the layout
\* of the new array is larger than isize::MAX (Layout::array(..).unwrap()),
\* or larger than the largest allocation (assert!).
GrowPanics(z, c) ==
    \/ z
    \/ grow(c) * ElemBytes > ISIZE_MAX
    \/ grow(c) * ElemBytes > MAX_ZST_CAPACITY

\* RawPQ::grow, match self.cap { 0 => alloc::alloc, _ => alloc::realloc }:
\* the number of alloc::alloc calls when the capacity goes from c to c2
Allocs(z, c, c2) == IF ~z /\ c = 0 /\ c2 # 0 THEN 1 ELSE 0

\* Drop for RawPQ that releases whenever the entry type has a size
RawDrop_any_cap(z, c) == IF ~z THEN 1 ELSE 0

\* Drop for RawPQ: the number of alloc::dealloc calls it makes
RawDrop(z, c) == IF c # 0 /\ ~z THEN 1 ELSE 0

\* RawPQ::shrink: the new capacity.
shrink(c) == c \div 2

----------------------------------------------------------------------------
(* The heap *)

len(q) == Len(q.data)
is_empty(q) == len(q) = 0

\* self[i], 0-based
At(d, i) == d[i + 1]
score(e) == e[1]

\* swap that writes the entry at j over the one at i and leaves j as it was
swap_overwrites(d, i, j) == [d EXCEPT ![i + 1] = d[j + 1]]

\* slice::swap, 0-based
swap(d, i, j) == [d EXCEPT ![i + 1] = d[j + 1], ![j + 1] = d[i + 1]]

left_child(index) == 2 * index + 1
right_child(index) == 2 * index + 2
parent(index) == (index - 1) \div 2
has_left(d, index) == left_child(index) < Len(d)
has_right(d, index) == right_child(index) < Len(d)

\* heapify_up without the recursive call: one swap only
heapify_up_once(d, index) ==
    IF index > 0
    THEN LET parent_ == (index - 1) \div 2
         IN  IF gt(score(At(d, parent_)), score(At(d, index)))
             THEN swap(d, parent_, index)
             ELSE d
    ELSE d

\* heapify_up that swaps whenever the parent is not strictly less
RECURSIVE heapify_up_not_less(_, _)
heapify_up_not_less(d, index) ==
    IF index > 0
    THEN LET parent_ == parent(index)
         IN  IF ~lt(score(At(d, parent_)), score(At(d, index)))
             THEN heapify_up_not_less(swap(d, parent_, index), parent_)
             ELSE d
    ELSE d

RECURSIVE heapify_up(_, _)
heapify_up(d, index) ==
    IF index > 0
    THEN LET parent_ == parent(index)
         IN  IF gt(score(At(d, parent_)), score(At(d, index)))
             THEN heapify_up(swap(d, parent_, index), parent_)
             ELSE d
    ELSE d

\* heapify_down that never looks at the right child
RECURSIVE heapify_down_left_only(_, _)
heapify_down_left_only(d, index) ==
    LET _left == left_child(index)
        min_ == IF has_left(d, index)
                   /\ lt(score(At(d, _left)), score(At(d, index)))
                THEN _left ELSE index
    IN  IF min_ # index
        THEN heapify_down_left_only(swap(d, index, min_), min_)
        ELSE d

RECURSIVE heapify_down(_, _)
heapify_down(d, index) ==
    LET _left == left_child(index)
        _right == right_child(index)
        min1 == IF has_left(d, index)
                   /\ lt(score(At(d, _left)), score(At(d, index)))
                THEN _left ELSE index
        min_ == IF has_right(d, index)
                   /\ lt(score(At(d, _right)), score(At(d, min1)))
                THEN _right ELSE min1
    IN  IF min_ # index
        THEN heapify_down(swap(d, index, min_), min_)
        ELSE d

\* PriorityQueue::new / with_capacity
New(z) == [data |-> <<>>, cap |-> RawNew(z)]
WithCapacity(z, n) == [data |-> <<>>, cap |-> RawWithCapacity(z, n)]

\* put that grows the backing store before every write
put_always_grows(q, s, x) ==
    LET c == grow(q.cap)
        d == Append(q.data, <<s, x>>)
    IN  [data |-> heapify_up(d, Len(d) - 1), cap |-> c]

\* PriorityQueue::put, when grow does not panic
put(q, s, x) ==
    LET c == IF q.cap = len(q) THEN grow(q.cap) ELSE q.cap
        d == Append(q.data, <<s, x>>)
    IN  [data |-> heapify_up(d, Len(d) - 1), cap |-> c]

\* nan_to_back without the swap
nan_to_back_never(d) == d

\* PriorityQueue::pop, its first step: a root whose score is not comparable
\* with itself is swapped with the last entry
nan_to_back(d) ==
    LET last_ == Len(d) - 1
        s0 == score(At(d, 0))
    IN  IF Len(d) > 1 /\ partial_cmp(s0, s0) = "None"
        THEN swap(d, 0, last_)
        ELSE d

\* pop_some without self.len -= 1
pop_some_keeps_len(q) ==
    LET d1 == nan_to_back(q.data)
        _top == At(d1, 0)
        _tmp == At(d1, len(q) - 1)
        d2 == [d1 EXCEPT ![1] = _tmp]
        d3 == IF Len(d2) > 1 THEN heapify_down(d2, 0) ELSE d2
    IN  [q |-> [data |-> d3, cap |-> q.cap], ret |-> Some(_top)]

\* PriorityQueue::pop, the branch self.len > 0
pop_some(q) ==
    LET d1 == nan_to_back(q.data)
        _top == At(d1, 0)
        _tmp == At(d1, len(q) - 1)
        d2 == SubSeq([d1 EXCEPT ![1] = _tmp], 1, len(q) - 1)
        d3 == IF Len(d2) > 1 THEN heapify_down(d2, 0) ELSE d2
        c == IF q.cap > SHRINK_THRESHOLD /\ q.cap \div 4 >= Len(d3)
             THEN shrink(q.cap) ELSE q.cap
    IN  [q |-> [data |-> d3, cap |-> c], ret |-> Some(_top)]

\* pop that gives the buffer back when it finds the queue empty
pop_empty_resets(q) ==
    IF len(q) > 0
    THEN pop_some(q)
    ELSE [q |-> [data |-> <<>>, cap |-> 0], ret |-> None]

\* pop that gives up (None) at a root whose score is not comparable
pop_none_at_nan(q) ==
    IF len(q) > 0 /\ score(At(q.data, 0)) # NaN
    THEN pop_some(q)
    ELSE [q |-> q, ret |-> None]

\* PriorityQueue::pop: the queue afterwards and the value returned
pop(q) ==
    IF len(q) > 0
    THEN pop_some(q)
    ELSE [q |-> q, ret |-> None]

\* PriorityQueue::try_pop: pop for callers that know the queue is not empty;
\* on an empty queue it panics
try_pop(q) ==
    IF is_empty(q) THEN [q |-> q, panics |-> TRUE, ret |-> None]
    ELSE [q |-> pop(q).q, panics |-> FALSE, ret |-> pop(q).ret]

\* PriorityQueue::peek
peek(q) == IF ~is_empty(q) THEN Some(At(q.data, 0)) ELSE None

\* merge whose loop stops one entry early
RECURSIVE merge_stops_early(_, _, _)
merge_stops_early(self_, other, steps) ==
    IF len(other) > 1
    THEN LET p == pop(other)
             elem == p.ret[1]
         IN  merge_stops_early(put(self_, elem[1], elem[2]), p.q, steps + 1)
    ELSE [self_ |-> self_, other |-> other, steps |-> steps]

\* PriorityQueue::merge: the loop, with the number of pop/put rounds it ran
RECURSIVE merge(_, _, _)
merge(self_, other, steps) ==
    IF ~is_empty(other)
    THEN LET p == pop(other)
             elem == p.ret[1]
         IN  merge(put(self_, elem[1], elem[2]), p.q, steps + 1)
    ELSE [self_ |-> self_, other |-> other, steps |-> steps]

\* for_each(|(s, e)| pq.put(s, e)) over a list of pairs
RECURSIVE put_each(_, _)
put_each(q, list) ==
    IF list = <<>> THEN q
    ELSE put_each(put(q, Head(list)[1], Head(list)[2]), Tail(list))

\* From<Vec<(S, T)>>::from. The capacity it computes from the vector is bound
\* to a shadowing _cap and dropped: the queue is made with MIN_CAPACITY.
from_vec(z, other) == put_each(WithCapacity(z, MIN_CAPACITY), other)

\* From<[(S, T); N]>::from
from_array(z, arr) ==
    LET q == WithCapacity(z, Len(arr))
    IN  IF ~z THEN put_each(q, arr) ELSE q

\* FromIterator::from_iter
from_iter(z, iter) == put_each(New(z), iter)

\* while let Some(e) = q.pop(): the sequence of entries returned
RECURSIVE PopAll(_)
PopAll(q) ==
    IF is_empty(q) THEN <<>>
    ELSE LET p == pop(q) IN <<p.ret[1]>> \o PopAll(p.q)

\* next that moves the start pointer two entries on
next_skips(rest) ==
    IF rest = <<>> THEN [rest |-> rest, ret |-> None]
    ELSE [rest |-> IF Len(rest) >= 2 THEN Tail(Tail(rest)) ELSE <<>>,
          ret |-> Some(Head(rest))]

\* RawPQIter::next over the entries between the start and end pointers
next(rest) ==
    IF rest = <<>> THEN [rest |-> rest, ret |-> None]
    ELSE [rest |-> Tail(rest), ret |-> Some(Head(rest))]

\* Iterator::collect into a Vec: next until None
RECURSIVE collect(_)
collect(rest) ==
    LET n == next(rest)
    IN  IF n.ret = None THEN <<>> ELSE <<n.ret[1]>> \o collect(n.rest)

\* range check that looks at the end only
range_panics_end_only(start, end, length) == end > length

\* slice::range(range, ..len) panics: start > end or end > len
range_panics(start, end, length) == start > end \/ end > length

\* drain that keeps the entries outside the range in the queue
drain_keeps_outside(q, start, end) ==
    [q |-> [data |-> SubSeq(q.data, 1, start) \o SubSeq(q.data, end + 1, len(q)),
            cap |-> q.cap],
     iter |-> SubSeq(q.data, start + 1, end)]

\* drain that leaves self.len as it was
drain_keeps_len(q, start, end) ==
    [q |-> q, iter |-> SubSeq(q.data, start + 1, end)]

\* PriorityQueue::drain for a valid range: the queue afterwards (self.len = 0)
\* and the slice self[start..end] the returned Drain iterates
drain(q, start, end) ==
    [q |-> [data |-> <<>>, cap |-> q.cap],
     iter |-> SubSeq(q.data, start + 1, end)]

\* The closure handed to sort_by: partial_cmp with None mapped to Less
sort_cmp(a, b) ==
    LET r == partial_cmp(score(a), score(b))
    IN  IF r = "None" THEN "Less" ELSE r

\* sort_by's is_less: compare(a, b) == Less
is_less(a, b) == sort_cmp(a, b) = "Less"

\* The standard library's stable sort on short slices (up to 20 entries) is
\* an insertion sort; which one depends on the toolchain.
\*   "insert_head": from the right, v[i] is put into the sorted v[i+1..]
\*   "insert_tail": from the left, v[i] is put into the sorted v[..i]
SortImpls == {"insert_head", "insert_tail"}

RECURSIVE head_dest(_, _, _)
head_dest(v, tmp, i) ==
    IF i <= Len(v) /\ is_less(v[i], tmp) THEN head_dest(v, tmp, i + 1) ELSE i - 1

insert_head(v) ==
    IF Len(v) >= 2 /\ is_less(v[2], v[1])
    THEN LET k == head_dest(v, v[1], 3)
         IN  SubSeq(v, 2, k) \o <<v[1]>> \o SubSeq(v, k + 1, Len(v))
    ELSE v

RECURSIVE merge_sort(_, _)
merge_sort(v, i) ==
    IF i < 1 THEN v
    ELSE merge_sort(SubSeq(v, 1, i - 1) \o insert_head(SubSeq(v, i, Len(v))), i - 1)

RECURSIVE tail_dest(_, _, _)
tail_dest(v, tmp, j) ==
    IF j > 1 /\ is_less(tmp, v[j - 1]) THEN tail_dest(v, tmp, j - 1) ELSE j

insert_tail(v) ==
    LET n == Len(v)
    IN  IF n >= 2 /\ is_less(v[n], v[n - 1])
        THEN LET k == tail_dest(v, v[n], n - 1)
             IN  SubSeq(v, 1, k - 1) \o <<v[n]>> \o SubSeq(v, k, n - 1)
        ELSE v

RECURSIVE insertion_sort_shift_left(_, _)
insertion_sort_shift_left(v, i) ==
    IF i > Len(v) THEN v
    ELSE insertion_sort_shift_left(
             insert_tail(SubSeq(v, 1, i)) \o SubSeq(v, i + 1, Len(v)), i + 1)

\* sort_by that leaves the vector as collected
sort_by_unsorted(v, impl) == v

\* res.sort_by(..)
sort_by(v, impl) ==
    IF impl = "insert_head" THEN merge_sort(v, Len(v) - 1)
    ELSE insertion_sort_shift_left(v, 2)

\* truncate that keeps the last n entries and destroys the first ones
truncate_keeps_last(q, n) ==
    IF n > len(q) THEN [q |-> q, dropped |-> <<>>]
    ELSE [q |-> [data |-> SubSeq(q.data, len(q) - n + 1, len(q)), cap |-> q.cap],
          dropped |-> SubSeq(q.data, 1, len(q) - n)]

\* truncate that drops the tail but leaves self.len as it was
truncate_keeps_len(q, n) ==
    IF n > len(q) THEN [q |-> q, dropped |-> <<>>]
    ELSE [q |-> q, dropped |-> SubSeq(q.data, n + 1, len(q))]

\* PriorityQueue::truncate: the queue afterwards and the entries that
\* drop_in_place destroyed, in order
truncate(q, n) ==
    IF n > len(q) THEN [q |-> q, dropped |-> <<>>]
    ELSE [q |-> [data |-> SubSeq(q.data, 1, n), cap |-> q.cap],
          dropped |-> SubSeq(q.data, n + 1, len(q))]

\* into_iter without mem::forget(self): the queue's destructor runs when
\* into_iter returns
into_iter_without_forget(q) == [iter |-> q.data, dropped |-> PopAll(q)]

\* PriorityQueue::into_iter: the slice the IntoIter iterates (all of self)
\* and the entries destroyed by the call (none: self is forgotten)
into_iter(q) == [iter |-> q.data, dropped |-> <<>>]

\* clone that copies one entry less than self.len
clone_short(z, q) ==
    LET dst == WithCapacity(z, len(q) + 1)
    IN  [data |-> SubSeq(q.data, 1, len(q) - 1), cap |-> dst.cap]

\* PriorityQueue::clone: ptr::copy of self[0..len] into a new buffer of
\* capacity len + 1
clone(z, q) ==
    LET dst == WithCapacity(z, len(q) + 1)
    IN  [data |-> q.data, cap |-> dst.cap]

\* PriorityQueue::into_sorted_vec
into_sorted_vec(q, impl) == sort_by(collect(drain(q, 0, len(q)).iter), impl)

----------------------------------------------------------------------------
(* The state machine *)

HasNaN(list) == \E i \in DOMAIN list : score(list[i]) = NaN

\* Lists of at most n entries
RECURSIVE Lists(_, _)
Lists(S, n) ==
    IF n = 0 THEN {<<>>}
    ELSE LET shorter == Lists(S, n - 1)
         IN  shorter \cup {Append(l, e) : l \in {k \in shorter : Len(k) = n - 1}, e \in S}

\* No Drain borrows the queue and no IntoIter has consumed it
NoIter ==
    [kind |-> "none", rest |-> <<>>, yielded |-> <<>>, range |-> <<0, 0>>,
     buf |-> 0]

\* The capacity new() has reached after two growths (0 -> 10 -> 30)
FilledLen == 3 * INITIAL_CAPACITY

\* new() followed by FilledLen puts of one entry: a full queue, len = cap
Filled == put_each(New(FALSE), [i \in 1..FilledLen |-> <<1, "a">>])

\* Init, or a queue that earlier puts have filled to its capacity
InitCap ==
    /\ zst \in BOOLEAN
    /\ \/ \E n \in InitCaps : pq = WithCapacity(zst, n) /\ made = n
       \/ ~zst /\ pq = Filled /\ made = 0
    /\ owed = len(pq)
    /\ held = Allocs(zst, 0, pq.cap)
    /\ rhs = New(zst)
    /\ op = "new"
    /\ ret = None
    /\ input = <<>>
    /\ nput = 0
    /\ npop = 0
    /\ nanPut = FALSE
    /\ iterator = NoIter
    /\ dropped = <<>>
    /\ sorted = <<>>
    /\ arg = <<>>

Init ==
    /\ zst \in BOOLEAN
    /\ \E n \in InitCaps : pq = WithCapacity(zst, n) /\ made = n
    /\ owed = 0
    /\ held = Allocs(zst, 0, pq.cap)
    /\ rhs = New(zst)
    /\ op = "new"
    /\ ret = None
    /\ input = <<>>
    /\ nput = 0
    /\ npop = 0
    /\ nanPut = FALSE
    /\ iterator = NoIter
    /\ dropped = <<>>
    /\ sorted = <<>>
    /\ arg = <<>>

Put ==
    /\ iterator.kind = "none"
    /\ op # "drop_loop"
    /\ nput < MaxPuts
    /\ ~HoldsReverse(pq.data)
    /\ \E e \in Entries(zst) :
          \/ /\ pq.cap = len(pq)
             /\ GrowPanics(zst, pq.cap) \/ mul_overflows(pq.cap)
             /\ op' = "put_panic"
             /\ UNCHANGED <<pq, nput, nanPut, owed>>
          \/ /\ ~(pq.cap = len(pq) /\ GrowPanics(zst, pq.cap))
             /\ pq' = put(pq, e[1], e[2])
             /\ op' = "put"
             /\ nput' = nput + 1
             /\ owed' = owed + 1
             /\ nanPut' = (nanPut \/ e[1] = NaN)
    /\ ret' = None
    /\ input' = <<>>
    /\ UNCHANGED <<zst, rhs, npop>>
    /\ dropped' = <<>>
    /\ sorted' = <<>>
    /\ iterator' = NoIter
    /\ arg' = <<>>
    /\ UNCHANGED made
    /\ held' = held + Allocs(zst, pq.cap, pq'.cap)

Pop ==
    /\ iterator.kind = "none"
    /\ op # "drop_loop"
    /\ pq' = pop(pq).q
    /\ ret' = pop(pq).ret
    /\ op' = "pop"
    /\ npop' = IF pop(pq).ret # None THEN npop + 1 ELSE npop
    /\ input' = <<>>
    /\ UNCHANGED <<zst, rhs, nput, nanPut>>
    /\ dropped' = <<>>
    /\ sorted' = <<>>
    /\ iterator' = NoIter
    /\ arg' = <<>>
    /\ owed' = IF pop(pq).ret # None THEN owed - 1 ELSE owed
    /\ UNCHANGED made
    /\ UNCHANGED held

\* peek that takes the root out
Peek_removes ==
    /\ iterator.kind = "none"
    /\ op # "drop_loop"
    /\ ret' = peek(pq)
    /\ pq' = pop(pq).q
    /\ op' = "peek"
    /\ input' = <<>>
    /\ UNCHANGED <<zst, rhs, nput, npop, nanPut>>
    /\ dropped' = <<>>
    /\ sorted' = <<>>
    /\ iterator' = NoIter
    /\ arg' = <<>>
    /\ UNCHANGED <<made, owed>>
    /\ UNCHANGED held

Peek ==
    /\ iterator.kind = "none"
    /\ op # "drop_loop"
    /\ ret' = peek(pq)
    /\ op' = "peek"
    /\ input' = <<>>
    /\ UNCHANGED <<zst, pq, rhs, nput, npop, nanPut>>
    /\ dropped' = <<>>
    /\ sorted' = <<>>
    /\ iterator' = NoIter
    /\ arg' = <<>>
    /\ UNCHANGED <<made, owed>>
    /\ UNCHANGED held

\* rhs.put(score, item) on the second queue
PutRhs ==
    /\ iterator.kind = "none"
    /\ op # "drop_loop"
    /\ nput < MaxPuts
    /\ \E e \in Entries(zst) :
          \/ /\ rhs.cap = len(rhs)
             /\ GrowPanics(zst, rhs.cap) \/ mul_overflows(rhs.cap)
             /\ op' = "put_panic"
             /\ UNCHANGED <<rhs, nput, nanPut, owed>>
          \/ /\ ~(rhs.cap = len(rhs) /\ GrowPanics(zst, rhs.cap))
             /\ rhs' = put(rhs, e[1], e[2])
             /\ op' = "put_rhs"
             /\ nput' = nput + 1
             /\ owed' = owed + 1
             /\ nanPut' = (nanPut \/ e[1] = NaN)
    /\ ret' = None
    /\ input' = <<>>
    /\ UNCHANGED <<zst, pq, npop>>
    /\ dropped' = <<>>
    /\ sorted' = <<>>
    /\ iterator' = NoIter
    /\ arg' = <<>>
    /\ UNCHANGED made
    /\ UNCHANGED held

\* pq.merge(&mut rhs)
Merge ==
    /\ iterator.kind = "none"
    /\ op # "drop_loop"
    /\ LET m == merge(pq, rhs, 0)
       IN  /\ pq' = m.self_
           /\ rhs' = m.other
    /\ op' = "merge"
    /\ ret' = None
    /\ input' = rhs.data
    /\ UNCHANGED <<zst, nput, npop, nanPut>>
    /\ dropped' = <<>>
    /\ sorted' = <<>>
    /\ iterator' = NoIter
    /\ arg' = <<>>
    /\ UNCHANGED owed
    /\ UNCHANGED made
    /\ held' = held + Allocs(zst, pq.cap, pq'.cap)

\* pq + rhs: both operands are consumed, pq is bound to the sum
Add ==
    /\ iterator.kind = "none"
    /\ op # "drop_loop"
    /\ LET res == merge(pq, rhs, 0).self_
       IN  pq' = res
    /\ rhs' = New(zst)
    /\ op' = "add"
    /\ ret' = None
    /\ input' = rhs.data
    /\ UNCHANGED <<zst, nput, npop, nanPut>>
    /\ dropped' = <<>>
    /\ sorted' = <<>>
    /\ iterator' = NoIter
    /\ arg' = <<>>
    /\ UNCHANGED owed
    /\ UNCHANGED made
    /\ held' = held + Allocs(zst, pq.cap, pq'.cap)

\* let pq = PriorityQueue::from(vec) instead of new()
FromVec ==
    /\ iterator.kind = "none"
    /\ op # "drop_loop"
    /\ op = "new"
    /\ \E other \in Lists(Entries(zst), MaxPuts) :
          /\ pq' = from_vec(zst, other)
          /\ input' = other
          /\ nput' = len(pq')
          /\ nanPut' = HasNaN(other)
    /\ op' = "from_vec"
    /\ ret' = None
    /\ UNCHANGED <<zst, rhs, npop>>
    /\ dropped' = <<>>
    /\ sorted' = <<>>
    /\ iterator' = NoIter
    /\ arg' = <<>>
    /\ made' = MIN_CAPACITY
    /\ owed' = len(pq')
    /\ held' = Allocs(zst, 0, pq'.cap)

\* let pq = PriorityQueue::from(array) instead of new()
FromArray ==
    /\ iterator.kind = "none"
    /\ op # "drop_loop"
    /\ op = "new"
    /\ \E arr \in Lists(Entries(zst), MaxPuts) :
          /\ pq' = from_array(zst, arr)
          /\ input' = arr
          /\ nput' = len(pq')
          /\ nanPut' = HasNaN(arr)
    /\ op' = "from_array"
    /\ ret' = None
    /\ UNCHANGED <<zst, rhs, npop>>
    /\ dropped' = <<>>
    /\ sorted' = <<>>
    /\ iterator' = NoIter
    /\ arg' = <<>>
    /\ made' = Len(input')
    /\ owed' = len(pq')
    /\ held' = Allocs(zst, 0, pq'.cap)

\* let pq = iter.collect() instead of new()
FromIter ==
    /\ iterator.kind = "none"
    /\ op # "drop_loop"
    /\ op = "new"
    /\ \E iter \in Lists(Entries(zst), MaxPuts) :
          /\ pq' = from_iter(zst, iter)
          /\ input' = iter
          /\ nput' = len(pq')
          /\ nanPut' = HasNaN(iter)
    /\ op' = "from_iter"
    /\ ret' = None
    /\ UNCHANGED <<zst, rhs, npop>>
    /\ dropped' = <<>>
    /\ sorted' = <<>>
    /\ iterator' = NoIter
    /\ arg' = <<>>
    /\ made' = 0
    /\ owed' = len(pq')
    /\ held' = Allocs(zst, 0, pq'.cap)

\* let v = pq.into_sorted_vec(): pq is consumed, the name is bound anew
IntoSortedVec ==
    /\ iterator.kind = "none"
    /\ op # "drop_loop"
    /\ \E impl \in SortImpls : sorted' = into_sorted_vec(pq, impl)
    /\ pq' = New(zst)
    /\ op' = "into_sorted_vec"
    /\ ret' = None
    /\ input' = pq.data
    /\ dropped' = <<>>
    /\ iterator' = NoIter
    /\ UNCHANGED <<zst, rhs, nput, npop, nanPut>>
    /\ arg' = <<>>
    /\ made' = 0
    /\ owed' = owed - len(pq)
    /\ held' = held - RawDrop(zst, pq.cap)

\* let d = pq.drain(start..end): d borrows pq until it is dropped
Drain ==
    /\ iterator.kind = "none"
    /\ op # "drop_loop"
    /\ \E start \in 0..(len(pq) + 1), end \in 0..(len(pq) + 1) :
          /\ IF range_panics(start, end, len(pq))
             THEN /\ op' = "drain_panic"
                  /\ iterator' = NoIter
                  /\ arg' = <<>>
                  /\ UNCHANGED pq
             ELSE /\ pq' = drain(pq, start, end).q
                  /\ iterator' = [kind |-> "drain",
                                  rest |-> drain(pq, start, end).iter,
                                  yielded |-> <<>>,
                                  range |-> <<start, end>>,
                                  buf |-> 0]
                  /\ arg' = <<start, end>>
                  /\ op' = "drain"
    /\ input' = pq.data
    /\ ret' = None
    /\ dropped' = <<>>
    /\ sorted' = <<>>
    /\ UNCHANGED <<zst, rhs, nput, npop, nanPut>>
    /\ owed' = IF op' = "drain"
               THEN owed - len(pq) + Len(iterator'.rest)
               ELSE owed
    /\ UNCHANGED made
    /\ UNCHANGED held

\* Drain::next / IntoIter::next: both hand on to RawPQIter::next
IterNext ==
    /\ iterator.kind # "none"
    /\ LET n == next(iterator.rest)
       IN  /\ ret' = n.ret
           /\ iterator' = [iterator EXCEPT
                              !.rest = n.rest,
                              !.yielded = IF n.ret = None THEN @ ELSE Append(@, n.ret[1])]
    /\ op' = "next"
    /\ dropped' = <<>>
    /\ sorted' = <<>>
    /\ UNCHANGED <<zst, pq, rhs, input, nput, npop, nanPut>>
    /\ arg' = <<>>
    /\ owed' = IF ret' # None THEN owed - 1 ELSE owed
    /\ UNCHANGED made
    /\ UNCHANGED held

\* Drop for Drain / IntoIter: for _ in &mut *self {}
IterDrop ==
    /\ iterator.kind # "none"
    /\ dropped' = collect(iterator.rest)
    /\ iterator' = [iterator EXCEPT !.kind = "none", !.rest = <<>>, !.buf = 0]
    /\ op' = "drop_" \o iterator.kind
    /\ ret' = None
    /\ sorted' = <<>>
    /\ UNCHANGED <<zst, pq, rhs, input, nput, npop, nanPut>>
    /\ arg' = <<>>
    /\ owed' = owed - Len(dropped')
    /\ UNCHANGED made
    /\ held' = IF iterator.kind = "into_iter"
               THEN held - RawDrop(zst, iterator.buf)
               ELSE held

\* pq.clear(): the Drain of self.drain(..) is dropped at the end of the statement
Clear ==
    /\ iterator.kind = "none"
    /\ op # "drop_loop"
    /\ pq' = drain(pq, 0, len(pq)).q
    /\ dropped' = collect(drain(pq, 0, len(pq)).iter)
    /\ iterator' = NoIter
    /\ op' = "clear"
    /\ input' = pq.data
    /\ ret' = None
    /\ sorted' = <<>>
    /\ UNCHANGED <<zst, rhs, nput, npop, nanPut>>
    /\ arg' = <<>>
    /\ owed' = owed - Len(dropped')
    /\ UNCHANGED made
    /\ UNCHANGED held

\* pq.truncate(n)
Truncate ==
    /\ iterator.kind = "none"
    /\ op # "drop_loop"
    /\ \E n \in 0..(len(pq) + 1) :
          /\ pq' = truncate(pq, n).q
          /\ dropped' = truncate(pq, n).dropped
          /\ arg' = <<n>>
    /\ iterator' = NoIter
    /\ op' = "truncate"
    /\ input' = pq.data
    /\ ret' = None
    /\ sorted' = <<>>
    /\ UNCHANGED <<zst, rhs, nput, npop, nanPut>>
    /\ owed' = owed - Len(dropped')
    /\ UNCHANGED made
    /\ UNCHANGED held

\* let i = pq.into_iter(): pq is consumed, the name is bound anew
IntoIter ==
    /\ iterator.kind = "none"
    /\ op # "drop_loop"
    /\ iterator' = [kind |-> "into_iter",
                    rest |-> into_iter(pq).iter,
                    yielded |-> <<>>,
                    range |-> <<0, len(pq)>>,
                    buf |-> pq.cap]
    /\ dropped' = into_iter(pq).dropped
    /\ pq' = New(zst)
    /\ op' = "into_iter"
    /\ input' = pq.data
    /\ ret' = None
    /\ sorted' = <<>>
    /\ arg' = <<>>
    /\ UNCHANGED <<zst, rhs, nput, npop, nanPut>>
    /\ owed' = owed - Len(dropped')
    /\ made' = 0
    /\ UNCHANGED held

\* let rhs = pq.clone() instead of new(): the entries copied count as
\* written, but none is made: ptr::copy calls no Clone::clone
Clone ==
    /\ iterator.kind = "none"
    /\ rhs = New(zst)
    /\ op # "drop_loop"
    /\ nput + len(pq) <= MaxPuts
    /\ rhs' = clone(zst, pq)
    /\ nput' = nput + len(pq)
    /\ iterator' = NoIter
    /\ op' = "clone"
    /\ input' = pq.data
    /\ ret' = None
    /\ dropped' = <<>>
    /\ sorted' = <<>>
    /\ arg' = <<>>
    /\ UNCHANGED <<zst, pq, npop, nanPut>>
    /\ UNCHANGED <<made, owed>>
    /\ UNCHANGED held

\* rhs.pop() on the second queue
PopRhs ==
    /\ iterator.kind = "none"
    /\ op # "drop_loop"
    /\ rhs' = pop(rhs).q
    /\ ret' = pop(rhs).ret
    /\ iterator' = NoIter
    /\ op' = "pop_rhs"
    /\ input' = <<>>
    /\ dropped' = <<>>
    /\ sorted' = <<>>
    /\ arg' = <<>>
    /\ UNCHANGED <<zst, pq, nput, npop, nanPut>>
    /\ owed' = IF pop(rhs).ret # None THEN owed - 1 ELSE owed
    /\ UNCHANGED made
    /\ UNCHANGED held

\* pq.put(Reverse(score), item) on a PriorityQueue<Reverse<U>, T>
PutReverse ==
    /\ iterator.kind = "none"
    /\ op # "drop_loop"
    /\ nput < MaxPuts
    /\ zst \/ ~HoldsPlain(pq.data)
    /\ \E e \in (IF zst THEN {UnitEntry} ELSE ReverseEntries) :
          \/ /\ pq.cap = len(pq)
             /\ GrowPanics(zst, pq.cap) \/ mul_overflows(pq.cap)
             /\ op' = "put_panic"
             /\ UNCHANGED <<pq, nput, owed>>
          \/ /\ ~(pq.cap = len(pq) /\ GrowPanics(zst, pq.cap))
             /\ pq' = put(pq, e[1], e[2])
             /\ op' = "put"
             /\ nput' = nput + 1
             /\ owed' = owed + 1
    /\ ret' = None
    /\ input' = <<>>
    /\ iterator' = NoIter
    /\ dropped' = <<>>
    /\ sorted' = <<>>
    /\ arg' = <<>>
    /\ UNCHANGED <<zst, rhs, npop, nanPut>>
    /\ UNCHANGED made
    /\ held' = held + Allocs(zst, pq.cap, pq'.cap)

\* pq.try_pop()
TryPop ==
    /\ iterator.kind = "none"
    /\ op # "drop_loop"
    /\ pq' = try_pop(pq).q
    /\ ret' = try_pop(pq).ret
    /\ op' = IF try_pop(pq).panics THEN "try_pop_panic" ELSE "try_pop"
    /\ npop' = IF try_pop(pq).panics THEN npop ELSE npop + 1
    /\ input' = pq.data
    /\ iterator' = NoIter
    /\ dropped' = <<>>
    /\ sorted' = <<>>
    /\ arg' = <<>>
    /\ UNCHANGED <<zst, rhs, nput, nanPut>>
    /\ owed' = IF try_pop(pq).panics THEN owed ELSE owed - 1
    /\ UNCHANGED made
    /\ UNCHANGED held

\* Drop for PriorityQueue, one turn of while self.pop().is_some() {}: a pair
\* popped is destroyed; when pop returns None the loop ends, the field data
\* is dropped (Drop for RawPQ) and the name pq is bound anew
DropLoop ==
    /\ iterator.kind = "none"
    /\ LET p == pop(pq)
           begun == op = "drop_loop"
       IN  /\ input' = IF begun THEN input ELSE pq.data
           /\ IF p.ret # None
              THEN /\ pq' = p.q
                   /\ dropped' = Append(IF begun THEN dropped ELSE <<>>, p.ret[1])
                   /\ owed' = owed - 1
                   /\ op' = "drop_loop"
                   /\ UNCHANGED held
                   /\ UNCHANGED made
              ELSE /\ pq' = New(zst)
                   /\ dropped' = IF begun THEN dropped ELSE <<>>
                   /\ UNCHANGED owed
                   /\ op' = "drop"
                   /\ held' = held - RawDrop(zst, pq.cap)
                   /\ made' = 0
    /\ ret' = None
    /\ sorted' = <<>>
    /\ iterator' = NoIter
    /\ arg' = <<>>
    /\ UNCHANGED <<zst, rhs, nput, npop, nanPut>>

\* Drop for PriorityQueue on the second queue, from the first pop to the
\* None that ends the loop; the name rhs is bound anew
DropRhs ==
    /\ iterator.kind = "none"
    /\ op # "drop_loop"
    /\ dropped' = PopAll(rhs)
    /\ owed' = owed - Len(dropped')
    /\ rhs' = New(zst)
    /\ op' = "drop_rhs"
    /\ input' = rhs.data
    /\ ret' = None
    /\ sorted' = <<>>
    /\ iterator' = NoIter
    /\ arg' = <<>>
    /\ UNCHANGED <<zst, pq, nput, npop, nanPut, made, held>>

Next ==
    \/ Put
    \/ Pop
    \/ Peek
    \/ PutRhs
    \/ Merge
    \/ Add
    \/ FromVec
    \/ FromArray
    \/ FromIter
    \/ IntoSortedVec
    \/ Drain
    \/ IterNext
    \/ IterDrop
    \/ Clear
    \/ Truncate
    \/ IntoIter
    \/ Clone
    \/ PopRhs
    \/ PutReverse
    \/ TryPop
    \/ DropLoop
    \/ DropRhs

Spec == Init /\ [][Next]_vars

\* Only put calls
NextPut == Put
SpecPut == Init /\ [][NextPut]_vars

\* put, pop and peek calls on one queue
NextPutPop ==
    \/ Put
    \/ Pop
    \/ Peek
SpecPutPop == Init /\ [][NextPutPop]_vars

\* Two queues filled by put, then merged or added
NextMerge ==
    \/ Put
    \/ PutRhs
    \/ Merge
    \/ Add
SpecMerge == Init /\ [][NextMerge]_vars

\* A queue built from a collection, then read
NextFrom ==
    \/ FromVec
    \/ FromArray
    \/ FromIter
    \/ Pop
    \/ Peek
SpecFrom == Init /\ [][NextFrom]_vars

\* A queue filled by put, then sorted into a vector
NextSorted ==
    \/ Put
    \/ IntoSortedVec
SpecSorted == Init /\ [][NextSorted]_vars

\* A queue filled by put, then drained or cleared
NextDrain ==
    \/ Put
    \/ Drain
    \/ IterNext
    \/ IterDrop
    \/ Clear
SpecDrain == Init /\ [][NextDrain]_vars

\* A queue filled by put, drained over some range, and destroyed
NextDrainDrop ==
    \/ Put
    \/ Drain
    \/ IterNext
    \/ IterDrop
    \/ DropLoop
SpecDrainDrop == Init /\ [][NextDrainDrop]_vars

\* A queue used by put, pop and truncate, and destroyed
NextDrop ==
    \/ Put
    \/ Pop
    \/ Truncate
    \/ DropLoop
SpecDrop == Init /\ [][NextDrop]_vars

\* The destructor is straight-line code: once begun, its loop goes on
DropRuns == op = "drop_loop" /\ DropLoop
SpecDropLive == SpecDrop /\ WF_vars(DropRuns)

\* A queue filled by put and cut by truncate
NextTruncate ==
    \/ Put
    \/ Truncate
SpecTruncate == Init /\ [][NextTruncate]_vars

\* A queue filled by put, then turned into an iterator
NextIntoIter ==
    \/ Put
    \/ IntoIter
    \/ IterNext
    \/ IterDrop
SpecIntoIter == Init /\ [][NextIntoIter]_vars

\* The life of a queue: made, grown by puts, then either destroyed or turned
\* into an IntoIter that is destroyed
NextLife ==
    \/ Put
    \/ DropLoop
    \/ IntoIter
    \/ IterNext
    \/ IterDrop
SpecLife == Init /\ [][NextLife]_vars

\* A queue and its clone, both used by put and pop
NextClone ==
    \/ Put
    \/ Pop
    \/ Clone
    \/ PutRhs
    \/ PopRhs
SpecClone == Init /\ [][NextClone]_vars

\* A queue and its clone, used by put and pop and then destroyed
NextCloneDrop ==
    \/ Put
    \/ Pop
    \/ Clone
    \/ PopRhs
    \/ DropLoop
    \/ DropRhs
SpecCloneDrop == Init /\ [][NextCloneDrop]_vars

\* A queue whose scores are all wrapped in Reverse
NextReverse ==
    \/ PutReverse
    \/ Pop
SpecReverse == Init /\ [][NextReverse]_vars

\* put, pop and try_pop calls on one queue
NextTryPop ==
    \/ Put
    \/ Pop
    \/ TryPop
SpecTryPop == Init /\ [][NextTryPop]_vars

\* Operations that set len or cap, on queues that may start full
NextCap ==
    \/ Put
    \/ Pop
    \/ Clear
    \/ Clone
    \/ Merge
SpecCap == InitCap /\ [][NextCap]_vars

----------------------------------------------------------------------------
(* Helpers of the properties *)

BagOf(list) ==
    [e \in {list[i] : i \in DOMAIN list} |->
        Cardinality({i \in DOMAIN list : list[i] = e})]

Comparable(e) == score(e) # NaN
IsNaNEntry(e) == score(e) = NaN

\* Non-decreasing scores, for lists whose scores are all comparable
Ascending(list) ==
    \A i \in 1..(Len(list) - 1) : score(list[i]) <= score(list[i + 1])

\* The parent/child heap invariant over comparable pairs
HeapInv(d) ==
    \A i \in 0..(Len(d) - 1) :
        \A c \in {left_child(i), right_child(i)} :
            (c < Len(d) /\ partial_cmp(score(At(d, i)), score(At(d, c))) # "None")
                => score(At(d, i)) <= score(At(d, c))

----------------------------------------------------------------------------
(* Properties *)

\* C1: with totally ordered scores only, in any sequence of put and pop
\* calls every successful pop returns an entry whose score is <= the score
\* of every entry still queued, and popping until None yields all entries
\* in non-decreasing score order.
C1_PopIsMinimum ==
    ~nanPut =>
        /\ (op = "pop" /\ ret # None) =>
              \A i \in DOMAIN pq.data : score(ret[1]) <= score(pq.data[i])
        /\ \A out \in {PopAll(pq)} :
              Ascending(out) /\ BagOf(out) = BagOf(pq.data)

C1_Witness ==
    /\ ~zst /\ ~nanPut
    /\ op = "pop" /\ ret # None
    /\ len(pq) >= 2
    /\ \E i \in DOMAIN pq.data : score(ret[1]) < score(pq.data[i])
    /\ \E i \in DOMAIN pq.data : score(ret[1]) = score(pq.data[i])

\* C2: after any sequence of put calls (ordered and NaN-like scores), for
\* every live index i and live child c, comparable scores satisfy
\* score(i) <= score(c).
C2_HeapInvAfterPuts == HeapInv(pq.data)

C2_Witness ==
    /\ op = "put" /\ nanPut
    /\ len(pq) >= 4
    /\ \E i \in DOMAIN pq.data : Comparable(pq.data[i])
    /\ score(At(pq.data, 0)) # NaN
    /\ score(At(pq.data, 0)) < score(At(pq.data, 1))
    /\ score(At(pq.data, 3)) = NaN

\* C3: for a queue filled by puts of comparable and NaN-like scores, popping
\* until None yields the comparable entries in non-decreasing score order.
C3_ComparableAscending ==
    \A out \in {PopAll(pq)} : Ascending(SelectSeq(out, Comparable))

\* C4: for a queue filled by puts of comparable and NaN-like scores, popping
\* until None never returns an incomparable entry while a comparable one is
\* still queued.
C4_IncomparableLast ==
    \A out \in {PopAll(pq)} :
        \A i \in DOMAIN out : \A j \in DOMAIN out :
            (i < j /\ IsNaNEntry(out[i])) => IsNaNEntry(out[j])

C6_EmptyPopPeek ==
    [][(op' \in {"pop", "peek"} /\ is_empty(pq)) =>
          /\ ret' = None
          /\ pq' = pq
          /\ \A e \in Entries(zst) :
                (pq'.cap # len(pq') \/ ~GrowPanics(zst, pq'.cap)) =>
                    put(pq', e[1], e[2]).data = <<e>>]_vars

C6_Witness ==
    /\ op = "pop" /\ ret = None
    /\ is_empty(pq)
    /\ pq.cap > 0
    /\ nput > 0 /\ npop = nput

\* C7: in any sequence of put and pop calls from an empty queue, len() is
\* the number of puts minus the number of pops that returned Some,
\* is_empty() holds exactly when len() is 0, and len is never negative.
C7_LengthAccounting ==
    /\ len(pq) = nput - npop
    /\ is_empty(pq) <=> (nput = npop)
    /\ len(pq) >= 0 /\ npop <= nput

C7_Witness ==
    /\ nput = MaxPuts
    /\ npop >= 2
    /\ len(pq) = MaxPuts - npop
    /\ op = "pop" /\ ret # None

\* C8: peek leaves the queue unchanged: length, capacity and the entry at
\* every index are as before, on empty and non-empty queues.
C8_PeekFrame ==
    [][op' = "peek" =>
          /\ len(pq') = len(pq)
          /\ pq'.cap = pq.cap
          /\ \A i \in 0..(len(pq) - 1) : At(pq'.data, i) = At(pq.data, i)
          /\ ret' = (IF is_empty(pq) THEN None ELSE Some(At(pq.data, 0)))]_vars

C8_Witness ==
    /\ op = "peek" /\ ret # None
    /\ len(pq) >= 3
    /\ ret[1] = At(pq.data, 0)

\* C9: merge runs exactly len(other) pop/put rounds, leaves other empty and
\* self holding the multiset union of both queues, with
\* len(self) = old len(self) + old len(other); with totally ordered scores
\* popping self afterwards yields the union in non-decreasing order. The +
\* operator returns a queue with the contents that merge leaves in self.
C9_MergeUnion ==
    [][op' \in {"merge", "add"} =>
          \A m \in {merge(pq, rhs, 0)} : \A out \in {PopAll(pq')} :
          \A union \in {BagOf(pq.data \o rhs.data)} :
              /\ input' = rhs.data
              /\ m.steps = len(rhs)
              /\ is_empty(m.other)
              /\ op' = "merge" => (pq' = m.self_ /\ is_empty(rhs'))
              /\ op' = "add" => pq'.data = m.self_.data
              /\ len(pq') = len(pq) + len(rhs)
              /\ BagOf(pq'.data) = union
              /\ BagOf(out) = union
              /\ ~nanPut => Ascending(out)]_vars

C9_Witness ==
    /\ ~zst /\ ~nanPut
    /\ op = "merge"
    /\ Len(input) >= 2
    /\ len(pq) >= Len(input) + 2
    /\ is_empty(rhs)
    /\ \E i \in DOMAIN input : score(input[i]) < score(At(pq.data, len(pq) - 1))
    /\ score(At(pq.data, 0)) < score(At(pq.data, len(pq) - 1))

\* C10: for a list of pairs with totally ordered scores, the queue built by
\* From<Vec>, From<[_; N]> or FromIterator has the list's length and, popped
\* until None, yields the same multiset of pairs in the same ascending score
\* order as an empty queue into which the pairs were put one by one.
C10_FromEqualsPuts ==
    (op \in {"from_vec", "from_array", "from_iter"} /\ ~HasNaN(input)) =>
        \A one_by_one \in {PopAll(put_each(New(zst), input))} :
        \A out \in {PopAll(pq)} :
            /\ len(pq) = Len(input)
            /\ BagOf(out) = BagOf(input)
            /\ BagOf(out) = BagOf(one_by_one)
            /\ Len(out) = Len(one_by_one)
            /\ \A i \in DOMAIN out : score(out[i]) = score(one_by_one[i])
            /\ Ascending(out)

\* C11: for a queue holding n entries with totally ordered scores,
\* into_sorted_vec returns a vector of length n that holds the same multiset
\* of (score, item) pairs as the queue and is in non-decreasing score order.
C11_SortedPermutation ==
    [][(op' = "into_sorted_vec" /\ ~HasNaN(pq.data)) =>
          /\ Len(sorted') = len(pq)
          /\ BagOf(sorted') = BagOf(pq.data)
          /\ Ascending(sorted')]_vars

C11_Witness ==
    /\ op = "into_sorted_vec"
    /\ ~zst /\ ~HasNaN(input)
    /\ Len(input) = MaxPuts
    /\ sorted # input
    /\ score(sorted[1]) < score(sorted[Len(sorted)])

\* C12: for a queue holding comparable and NaN-like scores in any storage
\* arrangement reachable by puts, into_sorted_vec returns every entry with a
\* comparable score first, in non-decreasing order, and after them every
\* entry with a NaN-like score.
C12_ComparableThenNaN ==
    [][op' = "into_sorted_vec" =>
          \E k \in 0..Len(sorted') :
              /\ \A i \in 1..k : Comparable(sorted'[i])
              /\ \A i \in (k + 1)..Len(sorted') : IsNaNEntry(sorted'[i])
              /\ Ascending(SubSeq(sorted', 1, k))]_vars

\* C13: drain(..) over the full range sets the queue's length to 0 at the
\* call, before anything is yielded: the length is 0 right after the call,
\* after every next (some, all or none of the entries yielded) and after the
\* Drain is dropped; after clear() the length is 0 as well.
C13_DrainAllEmpties ==
    /\ (op \in {"drain", "next", "drop_drain"} /\ iterator.range = <<0, Len(input)>>)
          => len(pq) = 0
    /\ op = "clear" => len(pq) = 0

C13_Witness ==
    /\ op = "drop_drain"
    /\ iterator.range = <<0, Len(input)>>
    /\ Len(input) = MaxPuts
    /\ iterator.yielded # <<>>
    /\ dropped # <<>>

\* C14: for a valid range a..b (a <= b <= len) the iterator returned by
\* drain(a..b) yields the entries stored at indices a, a+1, ..., b-1 in that
\* storage order, each once, and then None: b-a entries in total.
C14_DrainYieldsRange ==
    iterator.kind = "drain" =>
        \A a \in {iterator.range[1]}, b \in {iterator.range[2]} :
            /\ a <= b /\ b <= Len(input)
            /\ iterator.yielded \o iterator.rest = SubSeq(input, a + 1, b)
            /\ (op = "next" /\ ret # None) =>
                  ret[1] = At(input, a + Len(iterator.yielded) - 1)
            /\ (op = "next" /\ ret = None) =>
                  /\ iterator.yielded = SubSeq(input, a + 1, b)
                  /\ Len(iterator.yielded) = b - a

C14_Witness ==
    /\ iterator.kind = "drain"
    /\ op = "next" /\ ret = None
    /\ Len(input) = MaxPuts
    /\ iterator.range = <<1, 3>>
    /\ Len(iterator.yielded) = 2
    /\ score(iterator.yielded[1]) > score(iterator.yielded[2])
    /\ score(iterator.yielded[2]) # NaN

\* C15: truncate(n) with n >= len leaves length and contents unchanged and
\* destroys nothing; truncate(n) with n < len makes the length exactly n,
\* destroys exactly the entries at indices n..len-1, each once, and leaves
\* the entries at indices 0..n-1 and the capacity unchanged; truncate(0)
\* empties the queue.
C15_Truncate ==
    [][op' = "truncate" =>
          \A n \in {arg'[1]} :
              /\ n >= len(pq) => (pq' = pq /\ dropped' = <<>>)
              /\ n < len(pq) =>
                    /\ len(pq') = n
                    /\ dropped' = SubSeq(pq.data, n + 1, len(pq))
                    /\ \A i \in 0..(n - 1) : At(pq'.data, i) = At(pq.data, i)
                    /\ pq'.cap = pq.cap
              /\ n = 0 => is_empty(pq')]_vars

C15_Witness ==
    /\ op = "truncate"
    /\ Len(input) = MaxPuts
    /\ arg = <<2>>
    /\ len(pq) = 2
    /\ Len(dropped) = MaxPuts - 2

\* C16: into_iter consumes the queue and destroys nothing itself; its
\* iterator yields every stored pair once, in storage order (index 0 to
\* len-1), len pairs in total; when the iterator is dropped, the pairs not
\* yet yielded are destroyed once each, and no entry is left to the queue's
\* own destructor.
C16_IntoIter ==
    /\ op = "into_iter" => (dropped = <<>> /\ iterator.rest = input)
    /\ iterator.kind = "into_iter" =>
          /\ iterator.yielded \o iterator.rest = input
          /\ is_empty(pq)
          /\ (op = "next" /\ ret # None) =>
                ret[1] = At(input, Len(iterator.yielded) - 1)
          /\ (op = "next" /\ ret = None) =>
                (iterator.yielded = input /\ iterator.rest = <<>>)
    /\ op = "drop_into_iter" =>
          /\ iterator.yielded \o dropped = input
          /\ is_empty(pq)

C16_Witness ==
    /\ op = "drop_into_iter"
    /\ Len(input) = MaxPuts
    /\ Len(iterator.yielded) = 1
    /\ Len(dropped) = MaxPuts - 1

\* C17: clone returns a queue of the same length with the same pair at
\* every storage index, and leaves the original's length and contents
\* unchanged; afterwards a put or pop on one of the two queues changes
\* neither the length nor the contents of the other.
C17_CloneIndependent ==
    [][/\ op' = "clone" =>
             /\ len(rhs') = len(pq)
             /\ \A i \in 0..(len(pq) - 1) : At(rhs'.data, i) = At(pq.data, i)
             /\ pq'.data = pq.data
       /\ op' \in {"put", "pop"} => rhs'.data = rhs.data
       /\ op' \in {"put_rhs", "pop_rhs"} => pq'.data = pq.data]_vars

C17_Witness ==
    /\ op = "pop_rhs" /\ ret # None
    /\ len(pq) = 2
    /\ len(rhs) = 1
    /\ At(rhs.data, 0) \in {At(pq.data, j) : j \in 0..1}
    /\ rhs.cap = 3

\* C18: when every score is wrapped in Reverse the queue is a max-heap: in
\* any sequence of put and pop, each pop returns an entry whose underlying
\* score is >= the underlying score of every entry still queued.
C18_ReverseIsMaxHeap ==
    (op = "pop" /\ ret # None) =>
        \A i \in DOMAIN pq.data :
            /\ IsReverse(score(ret[1])) <=> IsReverse(score(pq.data[i]))
            /\ Unwrap(score(ret[1])) >= Unwrap(score(pq.data[i]))

C18_Witness ==
    /\ op = "pop" /\ ret # None
    /\ ~zst
    /\ npop >= 2
    /\ len(pq) >= 2
    /\ \E i \in DOMAIN pq.data : Unwrap(score(ret[1])) > Unwrap(score(pq.data[i]))

\* C19: try_pop on an empty queue panics instead of returning a value;
\* try_pop on a non-empty queue returns the pair that pop would return and
\* reduces the length by one.
C19_TryPop ==
    [][op' \in {"try_pop", "try_pop_panic"} =>
          IF is_empty(pq)
          THEN op' = "try_pop_panic" /\ ret' = None
          ELSE /\ op' = "try_pop"
               /\ ret' = pop(pq).ret /\ ret' # None
               /\ len(pq') = len(pq) - 1]_vars

C19_Witness ==
    /\ op = "try_pop"
    /\ Len(input) = MaxPuts
    /\ ret = Some(At(input, 0))
    /\ len(pq) = MaxPuts - 1

\* C20: in every reachable state the length of a queue is <= its capacity,
\* so that put has written its entry at an index strictly below the
\* capacity.
C20_LenWithinCap ==
    /\ len(pq) <= pq.cap
    /\ len(rhs) <= rhs.cap

\* C21: a queue made by with_capacity(n) is empty, and none of its first n
\* puts grows the backing store: after each of them the capacity is the one
\* right after construction.
C21_WithCapacityNoGrow ==
    /\ op = "new" => is_empty(pq)
    /\ nput <= made => pq.cap = WithCapacity(zst, made).cap

C21_Witness ==
    /\ ~zst
    /\ op = "put"
    /\ made = 2
    /\ nput = made
    /\ len(pq) = made
    /\ pq.cap = 2

\* C22: put and pop only relocate entries. For every reachable queue and
\* every pair (s, x), the pairs stored after put(s, x) are the old ones plus
\* (s, x), one more in all; after a pop that returns a pair the old pairs
\* are the ones left plus the pair returned, so that pop returns a pair that
\* was put, item included; a pop of the empty queue changes nothing.
C22_EntriesOnlyRelocated ==
    /\ \A e \in Entries(zst) :
          ~(pq.cap = len(pq) /\ GrowPanics(zst, pq.cap)) =>
             \A after \in {put(pq, e[1], e[2])} :
                /\ BagOf(after.data) = BagOf(Append(pq.data, e))
                /\ len(after) = len(pq) + 1
    /\ \A p \in {pop(pq)} :
          IF is_empty(pq)
          THEN p.ret = None /\ p.q = pq
          ELSE /\ p.ret # None
               /\ BagOf(Append(p.q.data, p.ret[1])) = BagOf(pq.data)
               /\ len(p.q) = len(pq) - 1

C22_Witness ==
    /\ op = "pop"
    /\ ret # None
    /\ nanPut
    /\ npop = 2
    /\ len(pq) = 2

\* The index t levels above index i on the path to the root (0-based)
Ancestor(i, t) == ((i + 1) \div Pow2(t)) - 1

\* k lies on the path from index i to the root, i included
OnPathUp(k, i) == \E t \in 0..WordBits : Ancestor(i, t) = k

\* C23: a put with a NaN-like score swaps nothing: the new entry ends at
\* index old_len and every entry stored before keeps its index. In general
\* the new entry climbs the path from index old_len towards the root past
\* every parent strictly greater than its score, each of which moves one
\* level down, and stops below the first parent that is not strictly greater
\* (lower, equal or incomparable); every other entry keeps its index.
C23_SiftUpStops ==
    \A e \in Entries(zst) :
       ~(pq.cap = len(pq) /\ GrowPanics(zst, pq.cap)) =>
          \A before \in {Append(pq.data, e)} :
          \A after \in {put(pq, e[1], e[2]).data} :
             /\ score(e) = NaN => after = before
             /\ \E k \in 0..len(pq) :
                   /\ OnPathUp(k, len(pq))
                   /\ At(after, k) = e
                   /\ k > 0 => ~gt(score(At(before, parent(k))), score(e))
                   /\ \A j \in 0..len(pq) :
                         IF j # k /\ OnPathUp(j, len(pq)) /\ OnPathUp(k, j)
                         THEN /\ gt(score(At(before, parent(j))), score(e))
                              /\ At(after, j) = At(before, parent(j))
                         ELSE j # k => At(after, j) = At(before, j)

C23_Witness ==
    /\ op = "put"
    /\ len(pq) = MaxPuts
    /\ score(At(pq.data, 0)) = 1
    /\ score(At(pq.data, len(pq) - 1)) = NaN
    /\ \E i \in 1..(len(pq) - 2) : score(At(pq.data, i)) = MaxScore

\* C24: starting from new() with an entry type that has a size, the capacity
\* is 0 until the first put, the first growth makes it INITIAL_CAPACITY, and
\* every later growth, which only a put with len = capacity triggers,
\* multiplies it by exactly 3; the pairs stored before are all still stored.
C24_GrowthChain ==
    [][/\ (op = "new" /\ made = 0 /\ ~zst /\ is_empty(pq)) => pq.cap = 0
       /\ (op' = "put" /\ made = 0 /\ ~zst) =>
             /\ pq'.cap = IF len(pq) # pq.cap THEN pq.cap
                          ELSE IF pq.cap = 0 THEN INITIAL_CAPACITY
                          ELSE 3 * pq.cap
             /\ \E e \in Entries(zst) :
                   BagOf(pq'.data) = BagOf(Append(pq.data, e))]_vars

\* C25: in machine-word arithmetic grow never installs a capacity smaller
\* than or equal to the current one: a put that grows ends with a larger
\* capacity, and when 3 * capacity does not fit the word, or the new size in
\* bytes is more than the largest allocation, or the entry type is
\* zero-sized (capacity 2^(w-1)), the grow is fatal and leaves the capacity
\* and the entries as they were.
C25_GrowNeverShrinks ==
    [][/\ op' = "put" =>
             /\ pq'.cap >= pq.cap
             /\ len(pq) = pq.cap => pq'.cap > pq.cap
       /\ (/\ op' \in {"put", "put_panic"}
           /\ len(pq) = pq.cap
           /\ \/ zst
              \/ mul_overflows(pq.cap)
              \/ 3 * pq.cap * ElemBytes > MAX_ZST_CAPACITY) =>
             op' = "put_panic" /\ pq' = pq
       /\ zst => pq.cap = MAX_ZST_CAPACITY]_vars

\* C26: PriorityQueue::from applied to an array of N pairs yields a queue of
\* length N, for every N >= 0 and every entry type, zero-sized pairs
\* included.
C26_FromArrayLen ==
    op = "from_array" => len(pq) = Len(input)

\* C27: drain(range) leaves the queue empty for every valid range, not only
\* the full one: len is 0 right after the call, while the Drain lives and
\* after it is dropped.
C27_DrainRangeEmpties ==
    (op = "drain" \/ iterator.kind = "drain" \/ op = "drop_drain") =>
        /\ len(pq) = 0
        /\ is_empty(pq)

C27_Witness ==
    /\ op = "drain"
    /\ Len(input) = 4
    /\ arg = <<2, 4>>
    /\ iterator.rest = SubSeq(input, 3, 4)
    /\ is_empty(pq)

\* C28: for drain over any valid range a..b and any number k of next calls
\* before the Drain is dropped, the entries of the range are the k yielded
\* followed by the ones the drop destroys, each exactly once; the queue
\* keeps none of them, so that no later operation and no destructor of the
\* queue destroys one again: at every step the entries handed in and not yet
\* returned, destroyed or forgotten are exactly the ones the queue and the
\* Drain still hold.
C28_DrainDestroysOnce ==
    /\ owed = len(pq) + Len(iterator.rest)
    /\ iterator.kind = "drain" =>
          /\ is_empty(pq)
          /\ iterator.yielded \o iterator.rest =
                SubSeq(input, iterator.range[1] + 1, iterator.range[2])
    /\ op = "drop_drain" =>
          /\ is_empty(pq)
          /\ iterator.yielded \o dropped =
                SubSeq(input, iterator.range[1] + 1, iterator.range[2])
    /\ op \in {"drop_loop", "drop"} => BagOf(dropped \o pq.data) = BagOf(input)

C28_Witness ==
    /\ op = "drop_drain"
    /\ Len(input) = MaxPuts
    /\ iterator.range = <<1, 3>>
    /\ Len(iterator.yielded) = 1
    /\ Len(dropped) = 1
    /\ owed = 0

\* C29: destroying a queue terminates: the destructor's loop is never in
\* progress forever. Every turn of the loop
\* that pops a pair makes the queue one shorter, the loop ends with the
\* queue empty, and by then it has destroyed every entry that was live when
\* it began exactly once, incomparable scores included; entries that pop or
\* truncate removed before are not destroyed again: the entries handed in
\* and not yet returned or destroyed are always the ones the queue holds.
C29_DropTerminates ==
    /\ [](/\ owed = len(pq)
          /\ op = "drop_loop" => BagOf(dropped \o pq.data) = BagOf(input)
          /\ op = "drop" =>
                /\ is_empty(pq)
                /\ owed = 0
                /\ BagOf(dropped) = BagOf(input))
    /\ [][/\ op' = "drop_loop" => len(pq') = len(pq) - 1
          /\ op' = "drop" => is_empty(pq)]_vars
    /\ []<>(op # "drop_loop")

C29_Witness ==
    /\ op = "drop"
    /\ Len(dropped) = MaxPuts - 1
    /\ npop = 1
    /\ nanPut
    /\ \E i \in DOMAIN dropped : score(dropped[i]) = NaN
    /\ BagOf(dropped) = BagOf(input)

\* C30: over the life of a queue (new or with_capacity, any number of
\* grows, then its drop, or into_iter and the IntoIter's drop) the backing
\* allocation is released exactly once if the capacity and the entry size
\* are both nonzero, and never if the capacity is 0 or the entry type is
\* zero-sized: one allocation is held exactly while the queue or the
\* IntoIter has a buffer, into_iter hands the buffer on without releasing
\* it, and the drop that ends the life leaves nothing held and nothing
\* released twice.
C30_ReleasedOnce ==
    /\ [](held = IF ~zst /\ (pq.cap # 0 \/ iterator.buf # 0) THEN 1 ELSE 0)
    /\ [][/\ op' = "drop" =>
                /\ held' = held - (IF pq.cap # 0 /\ ~zst THEN 1 ELSE 0)
                /\ held' = 0
          /\ op' = "into_iter" =>
                /\ held' = held
                /\ iterator'.buf = pq.cap
          /\ op' = "drop_into_iter" =>
                /\ held' = held - (IF iterator.buf # 0 /\ ~zst THEN 1 ELSE 0)
                /\ held' = 0
          /\ op' \notin {"drop", "drop_into_iter"} => held' >= held]_vars

C30_Witness ==
    /\ ~zst
    /\ op = "drop_into_iter"
    /\ Len(input) = MaxPuts
    /\ iterator.yielded # <<>>
    /\ dropped # <<>>
    /\ held = 0

\* C31: after any interleaving of put and pop calls, with totally ordered
\* and NaN-like scores, the parent/child heap invariant holds in every state
\* between operations: for every live index i and live child c whose scores
\* are comparable, score(i) <= score(c).
C31_HeapInvPutPop ==
    op \in {"new", "put", "pop", "peek"} => HeapInv(pq.data)

C31_Witness ==
    /\ op = "pop"
    /\ ret # None
    /\ len(pq) = 3
    /\ score(At(pq.data, 1)) = NaN
    /\ score(At(pq.data, 0)) < score(At(pq.data, 2))

\* C32: truncate keeps the heap property: if the parent/child heap invariant
\* holds before truncate(n) it holds for the entries that remain, and with
\* totally ordered scores the pops that follow return the remaining entries
\* in non-decreasing score order, the first one a minimum of them.
C32_TruncateKeepsHeap ==
    op = "truncate" =>
        /\ HeapInv(input) => HeapInv(pq.data)
        /\ ~HasNaN(input) =>
              \A out \in {PopAll(pq)} :
                 /\ BagOf(out) = BagOf(pq.data)
                 /\ Ascending(out)
                 /\ out # <<>> =>
                       \A i \in DOMAIN pq.data :
                          score(out[1]) <= score(pq.data[i])

C32_Witness ==
    /\ op = "truncate"
    /\ ~HasNaN(input)
    /\ Len(input) = MaxPuts
    /\ arg = <<2>>
    /\ len(pq) = 2
    /\ score(At(pq.data, 0)) < score(At(pq.data, 1))
    /\ score(dropped[1]) < score(At(pq.data, 1))

\* C33: drain(a..b) loses no entry: once the Drain has been dropped, every
\* entry that was in the queue before the call has been yielded, has been
\* destroyed, or is still a live entry of the queue.
C33_DrainLosesNothing ==
    op = "drop_drain" =>
        BagOf(iterator.yielded \o dropped \o pq.data) = BagOf(input)

\* C34: after clone the original and the copy own their entries
\* independently: over the later operations and the destruction of both
\* queues no stored item is destroyed more than once, and none that one
\* queue has handed out is destroyed by the other. The entries returned or
\* destroyed so far are then never more than the entries handed in, and a
\* queue's destructor never leaves fewer entries owed than the other queue
\* still stores.
C34_CloneOwnsItsEntries ==
    /\ owed >= 0
    /\ op = "drop" => owed >= len(rhs)
    /\ op = "drop_rhs" => owed >= len(pq)

\* C35: drain called with a range that is not within 0..len (end > len, or
\* start > end) panics before any state change: the queue's length and
\* stored entries are as before the call, no Drain exists and no entry is
\* yielded or destroyed; a drain that returns has a range within 0..len.
C35_DrainPanicsUnchanged ==
    [][/\ op' = "drain_panic" =>
             /\ pq' = pq
             /\ len(pq') = len(pq)
             /\ iterator' = NoIter
             /\ ret' = None
             /\ dropped' = <<>>
             /\ owed' = owed
       /\ op' = "drain" =>
             /\ arg'[1] <= arg'[2]
             /\ arg'[2] <= len(pq)
             /\ iterator'.range = arg']_vars

C35_Witness ==
    /\ op = "drain_panic"
    /\ len(pq) = MaxPuts
    /\ input = pq.data
    /\ iterator = NoIter
    /\ dropped = <<>>

====
